---- MODULE Spec2Model ----
(***************************************************************************)
(* State-synchronisation core of the dataset page: the recoil filter       *)
(* selectors (filters, filterStage, matchedTags) over the stateDescription *)
(* and modalFilters atoms, the event subscriber of the Dataset component   *)
(* and the process-wide theme of the theme provider.                       *)
(*                                                                         *)
(* JavaScript objects are functions from their keys to their values; an    *)
(* absent key is a key outside the DOMAIN.  Arrays and JavaScript Sets are *)
(* sequences (a Set is a duplicate-free sequence in insertion order).      *)
(***************************************************************************)
EXTENDS Integers, Sequences, FiniteSets, TLC

VARIABLES
    stateDescription,   \* atoms.stateDescription
    selectedSamples,    \* atoms.selectedSamples
    modalFilters,       \* the modalFilters atom
    sent,               \* number of socket.send calls so far
    lastMessage,        \* the argument of the last socket.send call
    sendOk,             \* whether the transport accepted the last message
    last                \* the operation that ran last: its parameters, what it
                        \* read when it began and the order of its effects

storeVars == << stateDescription, selectedSamples, modalFilters, sent,
                lastMessage, sendOk, last >>

VARIABLES
    theme,              \* the module-level theme of the theme provider
    current,            \* the fos.theme atom: the active colour-scheme key
    overridden,         \* the last customTheme handed to ThemeProvider
    lookup,             \* the last useTheme() result
    initialState,       \* the Dataset component's initialState
    plugins,            \* usePlugins(): "loading", "loaded" or "error"
    view,               \* what Dataset rendered last
    channel,            \* the event channel opened by useEventSource
    aborted,            \* controller.signal.aborted
    modalState,         \* atoms.modal
    delivered           \* the last message handed to onmessage

pageVars == << theme, current, overridden, lookup, initialState, plugins,
               view, channel, aborted, modalState, delivered >>

vars == << storeVars, pageVars >>

(***************************************************************************)
(* Bounds and input universes.                                             *)
(***************************************************************************)
MaxSent == 2

EmptyObj == [k \in {} |-> <<>>]

Paths == {"tags", "ground_truth"}

TagKeys == {"sample", "label"}

Samples == {"s1"}

\* State.Filter values a caller writes through filterStage (null apart).
FilterValues ==
    { EmptyObj,
      [sample |-> <<"a">>] }

FilterArgs ==
    { [isNull |-> TRUE, val |-> EmptyObj] }
    \cup { [isNull |-> FALSE, val |-> v] : v \in FilterValues }

\* Values a caller writes through matchedTags: Sets, and one non-Set value.
TagArgs ==
    { [isSet |-> TRUE, elems |-> <<>>],
      [isSet |-> TRUE, elems |-> <<"a">>],
      [isSet |-> FALSE, elems |-> <<>>] }

\* Values a caller writes through the filters selector: DefaultValue (a reset)
\* or a State.Filters object.
FiltersArgs ==
    { [isDefault |-> TRUE, obj |-> EmptyObj] }
    \cup { [isDefault |-> FALSE, obj |-> f] :
             f \in { [tags |-> EmptyObj],
                     [ground_truth |-> [sample |-> <<"a">>],
                      tags |-> [sample |-> <<"a">>, label |-> <<>>]] } }

(***************************************************************************)
(* Object helpers.                                                         *)
(***************************************************************************)
Delete(obj, k) == [j \in DOMAIN obj \ {k} |-> obj[j]]

Put(obj, k, v) == [j \in DOMAIN obj \cup {k} |-> IF j = k THEN v ELSE obj[j]]

Range(s) == { s[i] : i \in DOMAIN s }

RECURSIVE NewSet(_)
NewSet(arr) ==
    IF arr = <<>> THEN <<>>
    ELSE LET init == NewSet(SubSeq(arr, 1, Len(arr) - 1))
             x == arr[Len(arr)]
         IN IF x \in Range(init) THEN init ELSE Append(init, x)

ArrayFrom(set) == set

\* A value that may be undefined.
Undefined == [def |-> FALSE, obj |-> EmptyObj]

Defined(obj) == [def |-> TRUE, obj |-> obj]

(***************************************************************************)
(* The outbound message channel.                                           *)
(***************************************************************************)
packageMessage(type, args) == [type |-> type, filters |-> args.filters]

NoMessage == [type |-> "none", filters |-> EmptyObj]

\* socket.send(message) returns in every case; TRUE: the transport took the
\* message, FALSE: the send failed and the message is lost.
SendOutcomes == BOOLEAN

(***************************************************************************)
(* selector filters                                                        *)
(***************************************************************************)
FiltersGet(sd) ==
    IF "filters" \in DOMAIN sd THEN Defined(sd.filters) ELSE Undefined

FiltersSetOrder ==
    << "selectedSamples", "send", "stateDescription" >>

FiltersSetKeepSelection(sd, sel, input) ==
    LET filters == IF input.isDefault THEN EmptyObj ELSE input.obj
        state == [k \in DOMAIN sd \cup {"filters"} |->
                    IF k = "filters" THEN filters ELSE sd[k]]
    IN [ selectedSamples |-> sel,
         message |-> packageMessage("filters_update", [filters |-> filters]),
         stateDescription |-> state ]

FiltersSetStalePayload(sd, sel, input) ==
    LET filters == IF input.isDefault THEN EmptyObj ELSE input.obj
        state == [k \in DOMAIN sd \cup {"filters", "selected"} |->
                    IF k = "filters" THEN filters
                    ELSE IF k = "selected" THEN <<>>
                    ELSE sd[k]]
    IN [ selectedSamples |-> {},
         message |-> packageMessage("filters_update",
                                    [filters |-> FiltersGet(sd).obj]),
         stateDescription |-> state ]

FiltersSet(sd, sel, input) ==
    LET filters == IF input.isDefault THEN EmptyObj ELSE input.obj
        state == [k \in DOMAIN sd \cup {"filters", "selected"} |->
                    IF k = "filters" THEN filters
                    ELSE IF k = "selected" THEN <<>>
                    ELSE sd[k]]
    IN [ selectedSamples |-> {},
         message |-> packageMessage("filters_update", [filters |-> filters]),
         stateDescription |-> state ]

\* What a failed send leaves of the write's result.
CommitRollback(sd, sel, result, ok) ==
    IF ok THEN result
    ELSE [ selectedSamples |-> sel,
           message |-> result.message,
           stateDescription |-> sd ]

Commit(sd, sel, result, ok) == result

\* set(modal ? modalFilters : filters, value)
SetAtom(modal, value, ok) ==
    IF modal
    THEN /\ modalFilters' = value
         /\ ok = TRUE
         /\ UNCHANGED << stateDescription, selectedSamples, sent,
                         lastMessage, sendOk >>
    ELSE LET r == Commit(stateDescription, selectedSamples,
                         FiltersSet(stateDescription, selectedSamples,
                                    [isDefault |-> FALSE, obj |-> value]), ok)
         IN /\ sent < MaxSent
            /\ stateDescription' = r.stateDescription
            /\ selectedSamples' = r.selectedSamples
            /\ sent' = sent + 1
            /\ lastMessage' = r.message
            /\ sendOk' = ok
            /\ UNCHANGED modalFilters

\* get(modal ? modalFilters : filters)
GetAtom(modal) ==
    IF modal THEN Defined(modalFilters) ELSE FiltersGet(stateDescription)

Selection ==
    [ samples |-> selectedSamples,
      selected |-> IF "selected" \in DOMAIN stateDescription
                   THEN stateDescription.selected ELSE <<>> ]

(***************************************************************************)
(* selectorFamily filterStage                                              *)
(***************************************************************************)
FilterStageGet(cur, path) ==
    IF cur.def /\ path \in DOMAIN cur.obj THEN cur.obj[path] ELSE EmptyObj

FilterStageSetInPlace(cur, path, filter) ==
    LET newFilters == IF filter.isNull
                      THEN Delete(cur.obj, path)
                      ELSE Put(cur.obj, path, filter.val)
    IN [ newFilters |-> newFilters, source |-> newFilters ]

FilterStageSetKeepsOnNull(cur, path, filter) ==
    LET copy == cur.obj
    IN [ newFilters |-> IF filter.isNull
                        THEN copy
                        ELSE Put(copy, path, filter.val),
         source |-> cur.obj ]

\* newFilters is the object handed to set(); source is the object that was
\* read from the atom, as it is once the write has returned.
FilterStageSet(cur, path, filter) ==
    LET copy == cur.obj
    IN [ newFilters |-> IF filter.isNull
                        THEN Delete(copy, path)
                        ELSE Put(copy, path, filter.val),
         source |-> cur.obj ]

(***************************************************************************)
(* selectorFamily matchedTags                                              *)
(***************************************************************************)
\* threw: the read dereferenced .tags of an undefined filters value.
MatchedTagsGet(cur, key) ==
    IF ~cur.def THEN [threw |-> TRUE, set |-> <<>>]
    ELSE IF "tags" \in DOMAIN cur.obj /\ key \in DOMAIN cur.obj.tags
         THEN [threw |-> FALSE, set |-> NewSet(cur.obj.tags[key])]
         ELSE [threw |-> FALSE, set |-> <<>>]

MatchedTagsSetKeepsEmptyTags(cur, key, value) ==
    LET stages == cur.obj
        old == IF "tags" \in DOMAIN stages THEN stages.tags ELSE EmptyObj
        tags == IF value.isSet /\ Len(value.elems) > 0
                THEN Put(old, key, ArrayFrom(value.elems))
                ELSE Delete(old, key)
    IN Put(stages, "tags", tags)

MatchedTagsSet(cur, key, value) ==
    LET stages == cur.obj
        old == IF "tags" \in DOMAIN stages THEN stages.tags ELSE EmptyObj
        tags == IF value.isSet /\ Len(value.elems) > 0
                THEN Put(old, key, ArrayFrom(value.elems))
                ELSE IF "tags" \in DOMAIN stages /\ key \in DOMAIN stages.tags
                THEN Delete(old, key)
                ELSE old
        withTags == Put(stages, "tags", tags)
    IN IF DOMAIN withTags.tags = {}
       THEN Delete(withTags, "tags")
       ELSE withTags

(***************************************************************************)
(* Initial state: every atom holds its default.                            *)
(***************************************************************************)
NoFilter == [isNull |-> TRUE, val |-> EmptyObj]

NoValue == [isSet |-> FALSE, elems |-> <<>>]

NoInput == [isDefault |-> TRUE, obj |-> EmptyObj]

Record(op, modal, key, filter, value, input, cur, intact, order) ==
    [ op |-> op, modal |-> modal, key |-> key, filter |-> filter,
      value |-> value, input |-> input, before |-> cur,
      beforeSelected |-> Selection, sourceIntact |-> intact, order |-> order ]

OrderOf(modal) == IF modal THEN << "modalFilters" >> ELSE FiltersSetOrder

StoreInit ==
    /\ stateDescription = EmptyObj
    /\ selectedSamples = {}
    /\ modalFilters = EmptyObj
    /\ sent = 0
    /\ lastMessage = NoMessage
    /\ sendOk = TRUE
    /\ last = Record("init", FALSE, "tags", NoFilter, NoValue, NoInput,
                     Undefined, TRUE, <<>>)


(***************************************************************************)
(* Operations of the store.                                                *)
(***************************************************************************)
\* set(filters, input): a direct write or a reset of the filters selector.
WriteFilters(input, ok) ==
    LET r == Commit(stateDescription, selectedSamples,
                    FiltersSet(stateDescription, selectedSamples, input), ok)
    IN /\ sent < MaxSent
       /\ stateDescription' = r.stateDescription
       /\ selectedSamples' = r.selectedSamples
       /\ sent' = sent + 1
       /\ lastMessage' = r.message
       /\ sendOk' = ok
       /\ last' = Record("filters", FALSE, "tags", NoFilter, NoValue, input,
                         FiltersGet(stateDescription), TRUE, FiltersSetOrder)
       /\ UNCHANGED modalFilters
       /\ UNCHANGED pageVars

\* set(filterStage({path, modal}), filter)
WriteFilterStage(path, modal, filter, ok) ==
    LET cur == GetAtom(modal)
        r == FilterStageSet(cur, path, filter)
    IN /\ SetAtom(modal, r.newFilters, ok)
       /\ last' = Record("filterStage", modal, path, filter, NoValue, NoInput,
                         cur, r.source = cur.obj, OrderOf(modal))
       /\ UNCHANGED pageVars

\* set(matchedTags({key, modal}), value)
WriteMatchedTags(key, modal, value, ok) ==
    LET cur == GetAtom(modal)
    IN /\ SetAtom(modal, MatchedTagsSet(cur, key, value), ok)
       /\ last' = Record("matchedTags", modal, key, NoFilter, value, NoInput,
                         cur, TRUE, OrderOf(modal))
       /\ UNCHANGED pageVars

\* set(selectedSamples, samples): a consumer selects samples.
SetSelectedSamples(samples) ==
    /\ selectedSamples' = samples
    /\ last' = Record("selectedSamples", FALSE, "tags", NoFilter, NoValue,
                      NoInput, Undefined, TRUE, <<>>)
    /\ UNCHANGED << stateDescription, modalFilters, sent, lastMessage, sendOk >>
    /\ UNCHANGED pageVars

\* set(stateDescription, {...description, selected}): the mirrored selection.
SetSelected(selected) ==
    /\ stateDescription' = Put(stateDescription, "selected", selected)
    /\ last' = Record("stateDescription", FALSE, "tags", NoFilter, NoValue,
                      NoInput, Undefined, TRUE, <<>>)
    /\ UNCHANGED << selectedSamples, modalFilters, sent, lastMessage, sendOk >>
    /\ UNCHANGED pageVars

StoreNext ==
    \/ \E input \in FiltersArgs, ok \in SendOutcomes : WriteFilters(input, ok)
    \/ \E path \in Paths, modal \in BOOLEAN, filter \in FilterArgs,
          ok \in SendOutcomes : WriteFilterStage(path, modal, filter, ok)
    \/ \E key \in TagKeys, modal \in BOOLEAN, value \in TagArgs,
          ok \in SendOutcomes : WriteMatchedTags(key, modal, value, ok)
    \/ \E samples \in SUBSET Samples : SetSelectedSamples(samples)
    \/ \E selected \in { <<>>, <<"s1">> } : SetSelected(selected)

(***************************************************************************)
(* Theme: the module-level theme object, useTheme and ThemeProvider.       *)
(***************************************************************************)
LightPalette ==
    [ background |-> [ body |-> "hsl(200, 0%, 85%)",
                       input |-> "hsl(200, 0%, 98%)" ],
      text |-> [ primary |-> "hsl(200, 0%, 0%)" ] ]

DarkPalette ==
    [ background |-> [ body |-> "hsl(200, 0%, 15%)" ],
      text |-> [ primary |-> "hsl(200, 0%, 100%)" ] ]

DefaultTheme ==
    [ colorSchemes |-> [ light |-> [palette |-> LightPalette],
                         dark |-> [palette |-> DarkPalette] ] ]

\* Themes a caller passes to Dataset as its theme property.
CustomThemes ==
    { [ colorSchemes |->
          [ light |-> [palette |-> [ background |-> [body |-> "white"],
                                     text |-> [primary |-> "black"] ]],
            dark |-> [palette |-> [ background |-> [body |-> "black"],
                                    text |-> [primary |-> "white"] ]] ] ],
      [ colorSchemes |->
          [ light |-> [palette |-> [ background |-> [body |-> "ivory"],
                                     text |-> [primary |-> "navy"] ]],
            dark |-> [palette |-> [ background |-> [body |-> "navy"],
                                    text |-> [primary |-> "ivory"] ]] ] ] }

SchemeKeys == {"light", "dark"}

NoTheme == [given |-> FALSE, theme |-> DefaultTheme]

ThemeProps == {NoTheme} \cup { [given |-> TRUE, theme |-> t] : t \in CustomThemes }

\* theme.colorSchemes[key].palette
PaletteOf(t, key) == t.colorSchemes[key].palette

\* if (customTheme) theme = customTheme
ThemeProviderThemeResets(t, customTheme) ==
    IF customTheme.given THEN customTheme.theme ELSE DefaultTheme

ThemeProviderTheme(t, customTheme) ==
    IF customTheme.given THEN customTheme.theme ELSE t

(***************************************************************************)
(* Event payloads.  A JSON value carries its kind: "s" a scalar, "o" an    *)
(* object (a function on its keys), "a" an array (a sequence).             *)
(***************************************************************************)
Str(x) == [t |-> "s", v |-> x]

Obj(f) == [t |-> "o", v |-> f]

Arr(q) == [t |-> "a", v |-> q]

STATE_UPDATE == "state_update"

EventTags == { STATE_UPDATE, "refresh" }

\* The state field of JSON.parse(msg.data).
Payloads ==
    { [ colorscale |-> Str("X"),
        config |-> Obj([color_by |-> Str("field")]),
        view |-> Arr(<< Obj([kwargs |-> Str("k"), field_name |-> Str("f")]) >>),
        dataset |-> Str("quickstart") ],
      [ colorscale |-> Str("Z"),
        config |-> Obj([color_by |-> Str("label")]),
        view |-> Arr(<< >>),
        selected_labels |-> Arr(<< Obj([sample_id |-> Str("s1")]) >>) ],
      [ colorscale |-> Str("X"),
        config |-> Obj([color_by |-> Str("label")]),
        view |-> Arr(<< Obj([field_name |-> Str("g")]) >>),
        dataset |-> Str("quickstart"),
        selected_labels |-> Arr(<< >>) ] }

Messages == { [event |-> e, state |-> p] : e \in EventTags, p \in Payloads }

\* Key conversion of toCamelCase, on the keys that occur in the payloads.
camelCase ==
    [ view |-> "view", dataset |-> "dataset", kwargs |-> "kwargs",
      selected_labels |-> "selectedLabels", sample_id |-> "sampleId",
      field_name |-> "fieldName", color_by |-> "colorBy" ]

RECURSIVE toCamelCase(_)
toCamelCase(x) ==
    IF x.t = "s" THEN x
    ELSE IF x.t = "a"
    THEN Arr([i \in DOMAIN x.v |-> toCamelCase(x.v[i])])
    ELSE Obj([k \in { camelCase[j] : j \in DOMAIN x.v } |->
                toCamelCase(x.v[CHOOSE j \in DOMAIN x.v : camelCase[j] = k])])

NoState == [def |-> FALSE, val |-> EmptyObj]

\* The value handed to setState for a state_update message.
StateUpdateConvertsView(state) ==
    LET data == Delete(Delete(state, "colorscale"), "config")
    IN [ colorscale |-> state.colorscale,
         config |-> state.config,
         state |-> toCamelCase(Obj(data)).v ]

StateUpdate(state) ==
    LET colorscale == state.colorscale
        config == state.config
        data == Delete(Delete(state, "colorscale"), "config")
    IN [ colorscale |-> colorscale,
         config |-> config,
         state |-> Put(toCamelCase(Obj(data)).v, "view", data.view) ]

\* The initialState that onmessage leaves.
OnMessageIgnoresAbort(prev, isAborted, msg) ==
    IF msg.event = STATE_UPDATE
    THEN [def |-> TRUE, val |-> StateUpdate(msg.state)]
    ELSE prev

OnMessageResult(prev, isAborted, msg) ==
    IF isAborted THEN prev
    ELSE IF msg.event = STATE_UPDATE
    THEN [def |-> TRUE, val |-> StateUpdate(msg.state)]
    ELSE prev

ModalDefault == [visible |-> FALSE, sampleId |-> "null"]

NoDelivery ==
    [ any |-> FALSE, wasAborted |-> FALSE,
      msg |-> CHOOSE m \in Messages : TRUE ]

NoLookup ==
    [ done |-> FALSE, key |-> "light", palette |-> LightPalette,
      override |-> NoTheme ]

PageInit ==
    /\ theme = DefaultTheme
    /\ current = "dark"
    /\ overridden = NoTheme
    /\ lookup = NoLookup
    /\ initialState = NoState
    /\ plugins = "loading"
    /\ view = "none"
    /\ channel = "idle"
    /\ aborted = FALSE
    /\ modalState = ModalDefault
    /\ delivered = NoDelivery

(***************************************************************************)
(* Operations of the page.                                                 *)
(***************************************************************************)
\* Dataset({datasetName, environment, theme}) renders.
Render(themeProp) ==
    /\ ~aborted
    /\ IF plugins = "loading" \/ ~initialState.def
       THEN /\ view' = "loading"
            /\ UNCHANGED << theme, overridden >>
       ELSE IF plugins = "error"
       THEN /\ view' = "error"
            /\ UNCHANGED << theme, overridden >>
       ELSE /\ view' = "ready"
            /\ theme' = ThemeProviderTheme(theme, themeProp)
            /\ overridden' = IF themeProp.given THEN themeProp ELSE overridden
    /\ UNCHANGED << current, lookup, initialState, plugins, channel, aborted,
                    modalState, delivered >>
    /\ UNCHANGED storeVars

\* A component calls useTheme().
UseTheme ==
    /\ lookup' = [ done |-> TRUE, key |-> current,
                   palette |-> PaletteOf(theme, current),
                   override |-> overridden ]
    /\ UNCHANGED << theme, current, overridden, initialState, plugins, view,
                    channel, aborted, modalState, delivered >>
    /\ UNCHANGED storeVars

\* The colour scheme changes.
SetScheme(key) ==
    /\ current' = key
    /\ UNCHANGED << theme, overridden, lookup, initialState, plugins, view,
                    channel, aborted, modalState, delivered >>
    /\ UNCHANGED storeVars

\* usePlugins() settles.
PluginsSettle(outcome) ==
    /\ plugins = "loading"
    /\ plugins' = outcome
    /\ UNCHANGED << theme, current, overridden, lookup, initialState, view,
                    channel, aborted, modalState, delivered >>
    /\ UNCHANGED storeVars

\* The effect of useEventSource runs: the channel is opened.
Mount ==
    /\ view # "none"
    /\ channel = "idle"
    /\ ~aborted
    /\ channel' = "connecting"
    /\ UNCHANGED << theme, current, overridden, lookup, initialState, plugins,
                    view, aborted, modalState, delivered >>
    /\ UNCHANGED storeVars

OnOpen ==
    /\ channel = "connecting"
    /\ channel' = "streaming"
    /\ UNCHANGED << theme, current, overridden, lookup, initialState, plugins,
                    view, aborted, modalState, delivered >>
    /\ UNCHANGED storeVars

OnMessage(msg) ==
    /\ channel = "streaming"
    /\ initialState' = OnMessageResult(initialState, aborted, msg)
    /\ delivered' = [any |-> TRUE, wasAborted |-> aborted, msg |-> msg]
    /\ UNCHANGED << theme, current, overridden, lookup, plugins, view,
                    channel, aborted, modalState >>
    /\ UNCHANGED storeVars

OnClose ==
    /\ channel \in {"connecting", "streaming"}
    /\ channel' = "closed"
    /\ modalState' = ModalDefault
    /\ UNCHANGED << theme, current, overridden, lookup, initialState, plugins,
                    view, aborted, delivered >>
    /\ UNCHANGED storeVars

\* The cleanup of the effect: the component unmounts.
Teardown ==
    /\ channel # "idle"
    /\ ~aborted
    /\ aborted' = TRUE
    /\ UNCHANGED << theme, current, overridden, lookup, initialState, plugins,
                    view, channel, modalState, delivered >>
    /\ UNCHANGED storeVars

\* A sample is opened in the modalState.
OpenModal(sampleId) ==
    /\ view = "ready"
    /\ ~aborted
    /\ modalState' = [visible |-> TRUE, sampleId |-> sampleId]
    /\ UNCHANGED << theme, current, overridden, lookup, initialState, plugins,
                    view, channel, aborted, delivered >>
    /\ UNCHANGED storeVars

PageNext ==
    \/ \E themeProp \in ThemeProps : Render(themeProp)
    \/ UseTheme
    \/ \E key \in SchemeKeys : SetScheme(key)
    \/ \E outcome \in {"loaded", "error"} : PluginsSettle(outcome)
    \/ Mount
    \/ OnOpen
    \/ \E msg \in Messages : OnMessage(msg)
    \/ OnClose
    \/ Teardown
    \/ \E sampleId \in Samples : OpenModal(sampleId)

Init == StoreInit /\ PageInit

Next == StoreNext

Spec == Init /\ [][Next]_vars

PageSpec == Init /\ [][PageNext]_vars

(***************************************************************************)
(* Properties.                                                             *)
(***************************************************************************)
IsWrite == last.op \in {"filters", "filterStage", "matchedTags"}

TagsOf(obj) == IF "tags" \in DOMAIN obj THEN obj.tags ELSE EmptyObj

\* C1: a filterStage write of null at path P, in either modal context,
\* leaves a filters object without key P, whether or not P was there before,
\* and every other path keeps its prior entry.
C1_NullWriteRemovesPath ==
    (last.op = "filterStage" /\ last.filter.isNull) =>
        LET now == GetAtom(last.modal)
        IN /\ now.def
           /\ last.key \notin DOMAIN now.obj
           /\ now.obj = Delete(last.before.obj, last.key)

C1_Witness ==
    /\ last.op = "filterStage"
    /\ last.filter.isNull
    /\ last.key \in DOMAIN last.before.obj
    /\ DOMAIN last.before.obj = Paths
    /\ DOMAIN GetAtom(last.modal).obj = Paths \ {last.key}

\* C2: a filterStage write of a non-null value V at path P, in either modal
\* context, is followed by filterStage(P) reading V, the entries of all other
\* paths are unchanged, and the object read before the write is not mutated.
C2_WriteThenRead ==
    (last.op = "filterStage" /\ ~last.filter.isNull) =>
        LET now == GetAtom(last.modal)
        IN /\ FilterStageGet(now, last.key) = last.filter.val
           /\ Delete(now.obj, last.key) = Delete(last.before.obj, last.key)
           /\ last.sourceIntact

C2_Witness ==
    /\ last.op = "filterStage"
    /\ ~last.filter.isNull
    /\ last.filter.val # EmptyObj
    /\ last.key \in DOMAIN last.before.obj
    /\ last.before.obj[last.key] # last.filter.val
    /\ DOMAIN last.before.obj = Paths
    /\ FilterStageGet(GetAtom(last.modal), last.key) = last.filter.val

\* C3: a matchedTags write of an empty Set or of a non-Set value for category
\* K, in either modal context, leaves K absent from tags, leaves every other
\* category unchanged, removes the tags key when no category remains, and a
\* following matchedTags read of K returns the empty set.
C3_EmptyWriteDeletesCategory ==
    (last.op = "matchedTags" /\ (~last.value.isSet \/ Len(last.value.elems) = 0)) =>
        LET now == GetAtom(last.modal)
        IN /\ now.def
           /\ last.key \notin DOMAIN TagsOf(now.obj)
           /\ TagsOf(now.obj) = Delete(TagsOf(last.before.obj), last.key)
           /\ "tags" \in DOMAIN now.obj => DOMAIN now.obj.tags # {}
           /\ MatchedTagsGet(now, last.key) = [threw |-> FALSE, set |-> <<>>]

C3_Witness ==
    /\ last.op = "matchedTags"
    /\ last.value.isSet
    /\ Len(last.value.elems) = 0
    /\ DOMAIN TagsOf(last.before.obj) = {last.key}
    /\ "ground_truth" \in DOMAIN GetAtom(last.modal).obj
    /\ "tags" \notin DOMAIN GetAtom(last.modal).obj

\* C4: every write through the filters selector (direct, a reset, or a
\* non-modal filterStage / matchedTags write) leaves selectedSamples empty and
\* stateDescription.selected empty, whatever the selection was before.
C4_WriteClearsSelection ==
    (IsWrite /\ ~last.modal) =>
        /\ selectedSamples = {}
        /\ "selected" \in DOMAIN stateDescription
        /\ stateDescription.selected = <<>>

C4_Witness ==
    /\ last.op = "filters"
    /\ last.input.isDefault
    /\ last.beforeSelected.samples # {}
    /\ last.beforeSelected.selected # <<>>
    /\ selectedSamples = {}

\* C8: when the send of the filters_update message fails during a write to
\* the filters selector, the local state is committed all the same:
\* stateDescription.filters holds the new filters and selectedSamples is empty.
C8_FailedSendStillCommits ==
    (IsWrite /\ ~last.modal /\ ~sendOk) =>
        /\ FiltersGet(stateDescription) = Defined(lastMessage.filters)
        /\ last.op = "filters" =>
              stateDescription.filters =
                  (IF last.input.isDefault THEN EmptyObj ELSE last.input.obj)
        /\ selectedSamples = {}

C8_Witness ==
    /\ last.op = "filters"
    /\ ~sendOk
    /\ ~last.input.isDefault
    /\ last.before # Defined(last.input.obj)
    /\ last.beforeSelected.samples # {}
    /\ stateDescription.filters = last.input.obj

Position(order, name) == CHOOSE i \in DOMAIN order : order[i] = name

\* C9: every write to the filters selector sends exactly one filters_update
\* message carrying the new filters, before stateDescription is committed, so
\* the last message sent carries the committed stateDescription.filters;
\* writes to the modal filters send no message.
C9_OneMessagePerGridWrite ==
    /\ [](sent > 0 => Defined(lastMessage.filters) = FiltersGet(stateDescription))
    /\ [][ (last'.op \in {"filters", "filterStage", "matchedTags"}) =>
             IF last'.modal
             THEN sent' = sent /\ lastMessage' = lastMessage
             ELSE /\ sent' = sent + 1
                  /\ lastMessage'.type = "filters_update"
                  /\ lastMessage'.filters = stateDescription'.filters
                  /\ Position(last'.order, "send")
                       < Position(last'.order, "stateDescription") ]_vars

C9_Witness ==
    /\ sent >= 2
    /\ last.op = "matchedTags"
    /\ last.modal
    /\ modalFilters # EmptyObj
    /\ lastMessage.type = "filters_update"
    /\ lastMessage.filters # EmptyObj
    /\ lastMessage.filters # modalFilters
    /\ lastMessage.filters = stateDescription.filters

NoPlaceholder(f) ==
    /\ \A path \in DOMAIN f : f[path] # EmptyObj
    /\ \A k \in DOMAIN TagsOf(f) : f.tags[k] # <<>>

\* C10: starting from empty filters, after any sequence of filters,
\* filterStage and matchedTags writes in either modal context, no path maps to
\* an empty filter entry, no tag category maps to an empty set and no empty
\* tags container is retained.
C10_NoEmptyPlaceholder ==
    /\ NoPlaceholder(FiltersGet(stateDescription).obj)
    /\ NoPlaceholder(modalFilters)

\* C5: once the abort signal has been triggered, a message delivered to
\* onmessage, whatever its event tag, leaves initialState as it was.
C5_AbortedDiscards ==
    [][aborted => initialState' = initialState]_vars

C5_Witness ==
    /\ aborted
    /\ delivered.any
    /\ delivered.wasAborted
    /\ delivered.msg.event = STATE_UPDATE
    /\ initialState.def
    /\ initialState.val # StateUpdate(delivered.msg.state)

Residual(state) == DOMAIN state \ {"colorscale", "config"}

\* C6: while the subscription is not aborted, a delivered state_update
\* message replaces initialState wholesale: colorscale and config are the
\* event's, state is the case-converted residual fields with view set to the
\* event's unconverted view; a message with another tag changes nothing.
C6_StateUpdateReplaces ==
    [][ \A m \in Messages :
          (delivered' = [any |-> TRUE, wasAborted |-> FALSE, msg |-> m]) =>
            IF m.event = STATE_UPDATE
            THEN /\ initialState'.def
                 /\ initialState'.val.colorscale = m.state.colorscale
                 /\ initialState'.val.config = m.state.config
                 /\ initialState'.val.state.view = m.state.view
                 /\ DOMAIN initialState'.val.state
                      = { camelCase[k] : k \in Residual(m.state) }
                 /\ \A k \in Residual(m.state) \ {"view"} :
                      initialState'.val.state[camelCase[k]]
                        = toCamelCase(m.state[k])
            ELSE initialState' = initialState ]_vars

C6_Witness ==
    /\ delivered.any
    /\ ~delivered.wasAborted
    /\ delivered.msg.event = STATE_UPDATE
    /\ initialState.def
    /\ initialState.val.state.view = delivered.msg.state.view
    /\ toCamelCase(delivered.msg.state.view) # delivered.msg.state.view
    /\ "selectedLabels" \in DOMAIN initialState.val.state
    /\ initialState.val.colorscale = Str("X")

\* C7: once a custom theme has been handed to the theme provider, the
\* process-wide theme is that override and stays it, every later lookup of a
\* scheme key returns the override's palette and not the default theme's, and
\* nothing but an override replaces the default theme.
C7_OverrideWins ==
    /\ overridden.given => theme = overridden.theme
    /\ ~overridden.given => theme = DefaultTheme
    /\ (lookup.done /\ lookup.override.given) =>
          /\ lookup.palette = PaletteOf(lookup.override.theme, lookup.key)
          /\ lookup.palette # PaletteOf(DefaultTheme, lookup.key)

C7_Witness ==
    /\ overridden.given
    /\ view = "ready"
    /\ current = "dark"
    /\ lookup.done
    /\ lookup.override = overridden
    /\ lookup.key = "dark"
    /\ lookup.palette = PaletteOf(overridden.theme, "dark")
====
